---- MODULE Spec2Model ----
(***************************************************************************)
(* Model of the cell-type classification, per-substructure aggregation and *)
(* fraction computation of airavata_cerebrum/dataset/abc_mouse.py.         *)
(*                                                                         *)
(* Taxonomy labels and region keys are sequences of one-character strings, *)
(* so that str.endswith, Series.isin and str.replace are computed on the   *)
(* characters as Python computes them.  Column names are plain strings:    *)
(* the code only ever compares them for equality.  A data frame is a       *)
(* sequence of rows, a row a function from column name to value.           *)
(***************************************************************************)
EXTENDS Integers, Sequences, FiniteSets, TLC

\* Column names (abc_mouse.py:32-33)
PARCELLATION_SUBSTRUCTURE == "parcellation_substructure"
PARCELLATION_STRUCTURE == "parcellation_structure"

\* Python's None
None == "<None>"

(***************************************************************************)
(* The fixed taxonomy tables                                               *)
(***************************************************************************)
GLUT_IT_SUBCLASS_SETMAP ==
    "IT-ENT" :> {
        <<"0","0","3"," ","L","5","/","6"," ","I","T"," ","T","P","E","-","E","N","T"," ","G","l","u","t">>,  \* 003 L5/6 IT TPE-ENT Glut
        <<"0","0","8"," ","L","2","/","3"," ","I","T"," ","E","N","T"," ","G","l","u","t">>,  \* 008 L2/3 IT ENT Glut
        <<"0","0","9"," ","L","2","/","3"," ","I","T"," ","P","I","R","-","E","N","T","l"," ","G","l","u","t">>,  \* 009 L2/3 IT PIR-ENTl Glut
        <<"0","1","1"," ","L","2"," ","I","T"," ","E","N","T","-","p","o"," ","G","l","u","t">>  \* 011 L2 IT ENT-po Glut
    } @@
    "IT-CTX" :> {
        <<"0","0","4"," ","L","6"," ","I","T"," ","C","T","X"," ","G","l","u","t">>,  \* 004 L6 IT CTX Glut
        <<"0","0","5"," ","L","5"," ","I","T"," ","C","T","X"," ","G","l","u","t">>,  \* 005 L5 IT CTX Glut
        <<"0","0","6"," ","L","4","/","5"," ","I","T"," ","C","T","X"," ","G","l","u","t">>,  \* 006 L4/5 IT CTX Glut
        <<"0","0","7"," ","L","2","/","3"," ","I","T"," ","C","T","X"," ","G","l","u","t">>  \* 007 L2/3 IT CTX Glut
    } @@
    "IT-Other" :> {
        <<"0","0","2"," ","I","T"," ","E","P","-","C","L","A"," ","G","l","u","t">>,  \* 002 IT EP-CLA Glut
        <<"0","1","0"," ","I","T"," ","A","O","N","-","T","T","-","D","P"," ","G","l","u","t">>,  \* 010 IT AON-TT-DP Glut
        <<"0","1","8"," ","L","2"," ","I","T"," ","P","P","P","-","A","P","r"," ","G","l","u","t">>,  \* 018 L2 IT PPP-APr Glut
        <<"0","1","9"," ","L","2","/","3"," ","I","T"," ","P","P","P"," ","G","l","u","t">>,  \* 019 L2/3 IT PPP Glut
        <<"0","2","0"," ","L","2","/","3"," ","I","T"," ","R","S","P"," ","G","l","u","t">>  \* 020 L2/3 IT RSP Glut
    }

\* Faulty variant of GLUT_SUBCLASS_SETMAP: the IT set leaves out the IT-Other
\* labels (a union written out by hand and not kept up to date)
GLUT_SUBCLASS_SETMAP_StaleIT ==
    "ET" :> {<<"0","2","2"," ","L","5"," ","E","T"," ","C","T","X"," ","G","l","u","t">>} @@
    "CT" :> {<<"0","2","8"," ","L","6","b","/","C","T"," ","E","N","T"," ","G","l","u","t">>,
             <<"0","3","0"," ","L","6"," ","C","T"," ","C","T","X"," ","G","l","u","t">>,
             <<"0","3","1"," ","C","T"," ","S","U","B"," ","G","l","u","t">>} @@
    "NP" :> {<<"0","3","2"," ","L","5"," ","N","P"," ","C","T","X"," ","G","l","u","t">>,
             <<"0","3","3"," ","N","P"," ","S","U","B"," ","G","l","u","t">>,
             <<"0","3","4"," ","N","P"," ","P","P","P"," ","G","l","u","t">>} @@
    "IT" :> (GLUT_IT_SUBCLASS_SETMAP["IT-ENT"] \cup GLUT_IT_SUBCLASS_SETMAP["IT-CTX"])

GLUT_SUBCLASS_SETMAP ==
    "ET" :> {
        <<"0","2","2"," ","L","5"," ","E","T"," ","C","T","X"," ","G","l","u","t">>  \* 022 L5 ET CTX Glut
    } @@
    "CT" :> {
        <<"0","2","8"," ","L","6","b","/","C","T"," ","E","N","T"," ","G","l","u","t">>,  \* 028 L6b/CT ENT Glut
        <<"0","3","0"," ","L","6"," ","C","T"," ","C","T","X"," ","G","l","u","t">>,  \* 030 L6 CT CTX Glut
        <<"0","3","1"," ","C","T"," ","S","U","B"," ","G","l","u","t">>  \* 031 CT SUB Glut
    } @@
    "NP" :> {
        <<"0","3","2"," ","L","5"," ","N","P"," ","C","T","X"," ","G","l","u","t">>,  \* 032 L5 NP CTX Glut
        <<"0","3","3"," ","N","P"," ","S","U","B"," ","G","l","u","t">>,  \* 033 NP SUB Glut
        <<"0","3","4"," ","N","P"," ","P","P","P"," ","G","l","u","t">>  \* 034 NP PPP Glut
    } @@
    "IT" :> UNION {GLUT_IT_SUBCLASS_SETMAP[k] : k \in DOMAIN GLUT_IT_SUBCLASS_SETMAP}

GLUT == "Glut"
GLUT_TYPES == <<"ET", "CT", "NP", "IT">>
GLUT_IT_TYPES == <<"IT-ENT", "IT-CTX", "IT-Other">>
GLUT_COLUMNS == <<GLUT>> \o GLUT_TYPES \o GLUT_IT_TYPES \o <<"Glut-Other">>

GABA_SUBCLASS_SETMAP ==
    "Vip" :> {
        <<"0","4","6"," ","V","i","p"," ","G","a","b","a">>  \* 046 Vip Gaba
    } @@
    "Pvalb" :> {
        <<"0","5","1"," ","P","v","a","l","b"," ","c","h","a","n","d","e","l","i","e","r"," ","G","a","b","a">>,  \* 051 Pvalb chandelier Gaba
        <<"0","5","2"," ","P","v","a","l","b"," ","G","a","b","a">>  \* 052 Pvalb Gaba
    } @@
    "Sst" :> {
        <<"0","5","3"," ","S","s","t"," ","G","a","b","a">>,  \* 053 Sst Gaba
        <<"2","6","5"," ","P","B"," ","S","s","t"," ","G","l","y","-","G","a","b","a">>  \* 265 PB Sst Gly-Gaba
    } @@
    "Lamp5" :> {
        <<"0","4","9"," ","L","a","m","p","5"," ","G","a","b","a">>,  \* 049 Lamp5 Gaba
        <<"0","5","0"," ","L","a","m","p","5"," ","L","h","x","6"," ","G","a","b","a">>  \* 050 Lamp5 Lhx6 Gaba
    } @@
    "Sst-Chodl" :> {
        <<"0","5","6"," ","S","s","t"," ","C","h","o","d","l"," ","G","a","b","a">>  \* 056 Sst Chodl Gaba
    }

GABA == "GABA"
GABA_TYPES == <<"Vip", "Pvalb", "Sst", "Lamp5", "Sst-Chodl">>
GABA_COLUMNS == <<GABA>> \o GABA_TYPES \o <<"GABA-Other">>

\* Suffix literals of cell_meta_ei_flags / cell_meta_gaba_flags / cell_meta_glut_flags
STR_Glut == <<"G","l","u","t">>
STR_GABA == <<"G","A","B","A">>
STR_Gaba_Upper == <<"G","A","B","A">>
STR_Gaba == <<"G","a","b","a">>

Range(s) == {s[i] : i \in DOMAIN s}

(***************************************************************************)
(* Input labels of the classification check: every label of the taxonomy   *)
(* tables, and labels outside them.                                        *)
(***************************************************************************)
ClassLabels ==
    {
        <<"0","1"," ","I","T","-","E","T"," ","G","l","u","t">>,  \* 01 IT-ET Glut
        <<"0","4"," ","D","G","-","I","M","N"," ","G","l","u","t">>,  \* 04 DG-IMN Glut
        <<"0","5"," ","O","B","-","I","M","N"," ","G","A","B","A">>,  \* 05 OB-IMN GABA
        <<"0","7"," ","C","T","X","-","M","G","E"," ","G","A","B","A">>,  \* 07 CTX-MGE GABA
        <<"3","0"," ","A","s","t","r","o","-","E","p","e","n">>,  \* 30 Astro-Epen
        <<"X"," ","G","a","b","a">>,  \* X Gaba
        <<>>  \* 
    }

OtherSubclassLabels ==
    {
        <<"0","4","7"," ","S","n","c","g"," ","G","a","b","a">>,  \* 047 Sncg Gaba
        <<"0","1","6"," ","C","A","1","-","P","r","o","S"," ","G","l","u","t">>,  \* 016 CA1-ProS Glut
        <<"3","1","9"," ","A","s","t","r","o","-","T","E"," ","N","N">>,  \* 319 Astro-TE NN
        <<"0","4","5"," ","O","B","-","S","T","R","-","C","T","X"," ","I","n","h"," ","I","M","N">>,  \* 045 OB-STR-CTX Inh IMN
        <<"0","3","8"," ","D","G","-","P","I","R"," ","E","x"," ","I","M","N">>,  \* 038 DG-PIR Ex IMN
        <<"X"," ","G","A","B","A">>,  \* X GABA
        <<>>  \* 
    }

NamedSubclassLabels ==
    UNION {GLUT_SUBCLASS_SETMAP[k] : k \in DOMAIN GLUT_SUBCLASS_SETMAP}
    \cup UNION {GABA_SUBCLASS_SETMAP[k] : k \in DOMAIN GABA_SUBCLASS_SETMAP}

SubclassLabels == NamedSubclassLabels \cup OtherSubclassLabels

(***************************************************************************)
(* String predicates of pandas / Python, computed on the characters        *)
(***************************************************************************)
\* str.endswith(skey)
endswith(s, skey) ==
    /\ Len(s) >= Len(skey)
    /\ SubSeq(s, Len(s) - Len(skey) + 1, Len(s)) = skey

\* endswith_pred_fn, the only pred_fn the module passes to predicate_flags_df
endswith_pred_fn(df_col_value, skey) == endswith(df_col_value, skey)

(***************************************************************************)
(* TaxonomyClassifier                                                      *)
(***************************************************************************)
\* Faulty variant of predicate_flags_row: the exclude column is computed with
\* all() where the code has any()
predicate_flags_row_All(row, flag_key_map, select_col, exclude_column) ==
    LET pred_dct == [flag_column \in DOMAIN flag_key_map |->
                        endswith_pred_fn(row[select_col], flag_key_map[flag_column])]
    IN  IF exclude_column # None
        THEN (exclude_column :> ~(\A c \in DOMAIN pred_dct : pred_dct[c])) @@ pred_dct
        ELSE pred_dct

\* One row of pred_df: a flag per entry of flag_key_map, and the exclude
\* column set to "no flag of this row is true".
predicate_flags_row(row, flag_key_map, select_col, exclude_column) ==
    LET pred_dct == [flag_column \in DOMAIN flag_key_map |->
                        endswith_pred_fn(row[select_col], flag_key_map[flag_column])]
    IN  IF exclude_column # None
        THEN (exclude_column :> ~(\E c \in DOMAIN pred_dct : pred_dct[c])) @@ pred_dct
        ELSE pred_dct

predicate_flags_df(area_df, flag_key_map, select_col, exclude_column) ==
    [i \in DOMAIN area_df |->
        predicate_flags_row(area_df[i], flag_key_map, select_col, exclude_column)]

\* pd.concat([area_cell_df, pred_df], axis=1): the rows of the two frames
\* side by side (the input frames carry no flag columns).
concat_predicate_flags_df(area_df, flag_key_map, select_col, exclude_column) ==
    LET pred_df == predicate_flags_df(area_df, flag_key_map, select_col, exclude_column)
    IN  [i \in DOMAIN area_df |-> area_df[i] @@ pred_df[i]]

\* Faulty variant of EI_flag_key_map: the inhibitory key in the spelling of the
\* subclass labels
EI_flag_key_map_Gaba == ("E" :> STR_Glut) @@ ("I" :> STR_Gaba)

EI_flag_key_map == ("E" :> STR_Glut) @@ ("I" :> STR_GABA)

cell_meta_ei_flags(area_df) ==
    concat_predicate_flags_df(area_df, EI_flag_key_map, "class", "O")

cell_meta_subclass_flags(row, subclass_mapset) ==
    [kx \in DOMAIN subclass_mapset |-> row["subclass"] \in subclass_mapset[kx]]

\* area_cell_df.loc[:, col] = value, for one row
SetCol(row, col, value) == (col :> value) @@ row

\* Faulty variant of gaba_classifieds: Lamp5 left out of the list
gaba_classifieds_NoLamp5 == <<"Vip", "Pvalb", "Sst", "Sst-Chodl">>

gaba_classifieds == <<"Vip", "Pvalb", "Sst", "Sst-Chodl", "Lamp5">>

cell_meta_gaba_flags_row(row) ==
    LET pred_gaba == endswith(row["subclass"], STR_Gaba)
        pred_gaba_subclass_map == cell_meta_subclass_flags(row, GABA_SUBCLASS_SETMAP)
        row1 == pred_gaba_subclass_map @@ SetCol(row, "GABA", pred_gaba)
        pred_gaba_classified == \E c \in Range(gaba_classifieds) : row1[c]
    IN  SetCol(row1, "GABA-Other", pred_gaba /\ ~pred_gaba_classified)

cell_meta_gaba_flags(area_df) ==
    IF Len(area_df) = 0 THEN area_df
    ELSE [i \in DOMAIN area_df |-> cell_meta_gaba_flags_row(area_df[i])]

\* Faulty variant of glut_classifieds: IT left out of the list
glut_classifieds_NoIT == <<"ET", "CT", "NP">>

glut_classifieds == <<"ET", "CT", "IT", "NP">>

\* GLUT_SUBCLASS_SETMAP | GLUT_IT_SUBCLASS_SETMAP (the right operand wins a
\* shared key; the two maps share none)
GLUT_ALL_SUBCLASS_SETMAP == GLUT_IT_SUBCLASS_SETMAP @@ GLUT_SUBCLASS_SETMAP

cell_meta_glut_flags_row(row) ==
    LET pred_glut == endswith(row["subclass"], STR_Glut)
        pred_glut_subclass_map == cell_meta_subclass_flags(row, GLUT_ALL_SUBCLASS_SETMAP)
        row1 == pred_glut_subclass_map @@ SetCol(row, "Glut", pred_glut)
        pred_glut_classified == \E c \in Range(glut_classifieds) : row1[c]
    IN  SetCol(row1, "Glut-Other", pred_glut /\ ~pred_glut_classified)

cell_meta_glut_flags(area_df) ==
    IF Len(area_df) = 0 THEN area_df
    ELSE [i \in DOMAIN area_df |-> cell_meta_glut_flags_row(area_df[i])]

cell_meta_type_flags(area_df) ==
    cell_meta_glut_flags(cell_meta_gaba_flags(cell_meta_ei_flags(area_df)))

(***************************************************************************)
(* Python dict: key/value pairs in insertion order                         *)
(***************************************************************************)
DictKeys(d) == {d[i][1] : i \in DOMAIN d}
DictHas(d, k) == \E i \in DOMAIN d : d[i][1] = k
DictGet(d, k) == d[CHOOSE i \in DOMAIN d : d[i][1] = k][2]
\* d[k] = v: a new key goes last, an existing key keeps its place
DictSet(d, k, v) ==
    IF DictHas(d, k)
    THEN [i \in DOMAIN d |-> IF d[i][1] = k THEN <<k, v>> ELSE d[i]]
    ELSE Append(d, <<k, v>>)

(***************************************************************************)
(* Float results of pandas' true division of integer counts, as a reduced  *)
(* fraction num/den; 0/0 is NaN and n/0 (n > 0) is +inf, as numpy computes *)
(* them without raising.                                                   *)
(***************************************************************************)
RECURSIVE GCD(_, _)
GCD(a, b) == IF b = 0 THEN a ELSE GCD(b, a % b)

NaN == [num |-> 0, den |-> 0]
Inf == [num |-> 1, den |-> 0]
IsNaN(f) == f.num = 0 /\ f.den = 0
IsInf(f) == f.num # 0 /\ f.den = 0
IsFinite(f) == f.den > 0

\* Faulty variant of TrueDiv: a zero denominator gives 0
TrueDiv_ZeroFill(n, d) ==
    IF d = 0 THEN [num |-> 0, den |-> 1]
    ELSE [num |-> n \div GCD(n, d), den |-> d \div GCD(n, d)]

\* counts are never negative
TrueDiv(n, d) ==
    IF d = 0 THEN (IF n = 0 THEN NaN ELSE Inf)
    ELSE [num |-> n \div GCD(n, d), den |-> d \div GCD(n, d)]

(***************************************************************************)
(* FractionComputer                                                        *)
(***************************************************************************)
FRACTION_COLUMN_FMT(colx) == colx \o " fraction"
INHIBITORY_FRACTION_COLUMN == "inhibitory fraction"
FRACTION_WI_REGION_COLUMN == "fraction wi. region"

\* x.replace(ax, ""): every non-overlapping occurrence of ax, scanning from
\* the left, is removed; replacing the empty string by itself changes nothing
RECURSIVE str_replace_empty(_, _)
str_replace_empty(x, old) ==
    IF old = <<>> \/ Len(x) < Len(old) THEN x
    ELSE IF SubSeq(x, 1, Len(old)) = old
         THEN str_replace_empty(SubSeq(x, Len(old) + 1, Len(x)), old)
         ELSE <<Head(x)>> \o str_replace_empty(Tail(x), old)

\* Faulty variant of ParentColumn: the IT subtypes divided by the IT count
ParentColumn_NestedIT(colx) ==
    IF colx \in Range(GABA_TYPES) THEN GABA
    ELSE IF colx \in Range(GLUT_IT_TYPES) THEN "IT" ELSE GLUT

\* The denominator column of each "<colx> fraction" column
\* (the three loops of cell_meta_type_ratios)
ParentColumn(colx) ==
    IF colx \in Range(GABA_TYPES) THEN GABA ELSE GLUT

\* The subtype columns the three loops run over
FRACTION_TYPES == Range(GABA_TYPES) \cup Range(GLUT_IT_TYPES) \cup Range(GLUT_TYPES)

cell_meta_type_ratios_row(sum_row, x, region_ax, nregion) ==
    [fraction_col \in {FRACTION_COLUMN_FMT(colx) : colx \in FRACTION_TYPES} |->
        LET colx == CHOOSE k \in FRACTION_TYPES : FRACTION_COLUMN_FMT(k) = fraction_col
        IN  TrueDiv(sum_row[colx], sum_row[ParentColumn(colx)])]
    @@ ("Region" :> region_ax)
    @@ ("Layer" :> str_replace_empty(x, region_ax))
    @@ ("nregion" :> nregion)
    @@ (INHIBITORY_FRACTION_COLUMN :> TrueDiv(sum_row["I"], sum_row["EI"]))
    @@ (FRACTION_WI_REGION_COLUMN :> TrueDiv(sum_row["T"], nregion))

\* ratio_df has the index of area_sumdf, in its order
cell_meta_type_ratios(area_sumdf, region_ax, nregion) ==
    [i \in DOMAIN area_sumdf |->
        <<area_sumdf[i][1],
          cell_meta_type_ratios_row(area_sumdf[i][2], area_sumdf[i][1], region_ax, nregion)>>]

(***************************************************************************)
(* RegionAggregator and the loop over the requested regions                *)
(***************************************************************************)
ei_cols == <<PARCELLATION_SUBSTRUCTURE, "E", "I", "O">>
sel_cols == ei_cols \o GABA_COLUMNS \o GLUT_COLUMNS

\* cell_ccf.loc[cell_ccf[PARCELLATION_STRUCTURE] == region]
SelectRegion(ccf, region) ==
    SelectSeq(ccf, LAMBDA r : r[PARCELLATION_STRUCTURE] = region)

\* Python's order of strings: by code point, character by character
CODE_POINT_ORDER ==
    <<" ", "-", "/", "0", "1", "2", "3", "4", "5", "6", "7", "8", "9",
      "A", "B", "C", "D", "E", "F", "G", "H", "I", "J", "K", "L", "M",
      "N", "O", "P", "Q", "R", "S", "T", "U", "V", "W", "X", "Y", "Z",
      "a", "b", "c", "d", "e", "f", "g", "h", "i", "j", "k", "l", "m",
      "n", "o", "p", "q", "r", "s", "t", "u", "v", "w", "x", "y", "z">>
Ord(ch) == CHOOSE i \in DOMAIN CODE_POINT_ORDER : CODE_POINT_ORDER[i] = ch

RECURSIVE StrLess(_, _)
StrLess(a, b) ==
    IF b = <<>> THEN FALSE
    ELSE IF a = <<>> THEN TRUE
    ELSE IF Head(a) = Head(b) THEN StrLess(Tail(a), Tail(b))
    ELSE Ord(Head(a)) < Ord(Head(b))

RECURSIVE SortedKeys(_)
SortedKeys(keys) ==
    IF keys = {} THEN <<>>
    ELSE LET least == CHOOSE k \in keys : \A o \in keys \ {k} : StrLess(k, o)
         IN  <<least>> \o SortedKeys(keys \ {least})

\* The summed row of the records of region_df whose substructure is k
sum_row_of(region_df, k) ==
    [c \in Range(sel_cols) \ {PARCELLATION_SUBSTRUCTURE} |->
        Cardinality({i \in DOMAIN region_df :
                        /\ region_df[i][PARCELLATION_SUBSTRUCTURE] = k
                        /\ region_df[i][c]})]

\* Faulty variant of groupby_sum: one row per record, the records of a
\* substructure not merged
groupby_sum_PerRecord(region_df) ==
    [j \in DOMAIN region_df |->
        <<region_df[j][PARCELLATION_SUBSTRUCTURE],
          sum_row_of(region_df, region_df[j][PARCELLATION_SUBSTRUCTURE])>>]

\* region_df[sel_cols].groupby(PARCELLATION_SUBSTRUCTURE).sum(): one row per
\* substructure value that occurs, in sorted order of the values, each flag
\* column summed over the records of the group
groupby_sum(region_df) ==
    LET index == SortedKeys({region_df[i][PARCELLATION_SUBSTRUCTURE] : i \in DOMAIN region_df})
    IN  [j \in DOMAIN index |-> <<index[j], sum_row_of(region_df, index[j])>>]

\* Faulty variant of derived_T_EI: T leaves out the O count
derived_T_EI_NoO(sum_row) ==
    LET with_T == SetCol(sum_row, "T", sum_row["E"] + sum_row["I"])
    IN  SetCol(with_T, "EI", with_T["E"] + with_T["I"])

\* The derived columns T and EI, computed on the summed rows
derived_T_EI(sum_row) ==
    LET with_T == SetCol(sum_row, "T", sum_row["E"] + sum_row["I"] + sum_row["O"])
    IN  SetCol(with_T, "EI", with_T["E"] + with_T["I"])

EmptyMaps == [cell |-> <<>>, ctx |-> <<>>, frac |-> <<>>]

region_iteration_LayerCount(ccf, region, maps) ==
    LET region_df0 == SelectRegion(ccf, region)
    IN  IF Len(region_df0) = 0 THEN maps
        ELSE LET region_df == cell_meta_type_flags(region_df0)
                 sums == groupby_sum(region_df)
                 region_ei_ctx ==
                     [j \in DOMAIN sums |-> <<sums[j][1], derived_T_EI(sums[j][2])>>]
                 n_region_layers == Len(region_ei_ctx)
                 region_ei_ratio ==
                     cell_meta_type_ratios(region_ei_ctx, region, n_region_layers)
             IN  [cell |-> DictSet(maps.cell, region, region_df),
                  ctx |-> DictSet(maps.ctx, region, region_ei_ctx),
                  frac |-> DictSet(maps.frac, region, region_ei_ratio)]

region_iteration_TableCount(ccf, region, maps) ==
    LET region_df0 == SelectRegion(ccf, region)
    IN  IF Len(region_df0) = 0 THEN maps
        ELSE LET region_df == cell_meta_type_flags(region_df0)
                 sums == groupby_sum(region_df)
                 region_ei_ctx ==
                     [j \in DOMAIN sums |-> <<sums[j][1], derived_T_EI(sums[j][2])>>]
                 n_region_layers == Len(ccf)
                 region_ei_ratio ==
                     cell_meta_type_ratios(region_ei_ctx, region, n_region_layers)
             IN  [cell |-> DictSet(maps.cell, region, region_df),
                  ctx |-> DictSet(maps.ctx, region, region_ei_ctx),
                  frac |-> DictSet(maps.frac, region, region_ei_ratio)]

region_iteration_Leaky(ccf, region, maps) ==
    LET region_df0 ==
            SelectSeq(ccf, LAMBDA row :
                \/ row[PARCELLATION_STRUCTURE] = region
                \/ DictHas(maps.cell, row[PARCELLATION_STRUCTURE]))
    IN  IF Len(region_df0) = 0 THEN maps
        ELSE LET region_df == cell_meta_type_flags(region_df0)
                 sums == groupby_sum(region_df)
                 region_ei_ctx ==
                     [j \in DOMAIN sums |-> <<sums[j][1], derived_T_EI(sums[j][2])>>]
                 n_region_layers == Len(region_df)
                 region_ei_ratio ==
                     cell_meta_type_ratios(region_ei_ctx, region, n_region_layers)
             IN  [cell |-> DictSet(maps.cell, region, region_df),
                  ctx |-> DictSet(maps.ctx, region, region_ei_ctx),
                  frac |-> DictSet(maps.frac, region, region_ei_ratio)]

\* One iteration of the loop of region_ccf_cell_types
region_iteration(ccf, region, maps) ==
    LET region_df0 == SelectRegion(ccf, region)
    IN  IF Len(region_df0) = 0 THEN maps
        ELSE LET region_df == cell_meta_type_flags(region_df0)
                 sums == groupby_sum(region_df)
                 region_ei_ctx ==
                     [j \in DOMAIN sums |-> <<sums[j][1], derived_T_EI(sums[j][2])>>]
                 n_region_layers == Len(region_df)
                 region_ei_ratio ==
                     cell_meta_type_ratios(region_ei_ctx, region, n_region_layers)
             IN  [cell |-> DictSet(maps.cell, region, region_df),
                  ctx |-> DictSet(maps.ctx, region, region_ei_ctx),
                  frac |-> DictSet(maps.frac, region, region_ei_ratio)]

RECURSIVE region_loop(_, _, _, _)
region_loop(ccf, rlist, i, maps) ==
    IF i > Len(rlist) THEN maps
    ELSE region_loop(ccf, rlist, i + 1, region_iteration(ccf, rlist[i], maps))

\* returns region_cell_ccf, region_ctx_ccf, region_frac_ccf
region_ccf_cell_types(ccf, rlist) == region_loop(ccf, rlist, 1, EmptyMaps)

(***************************************************************************)
(* Bounds and inputs                                                       *)
(***************************************************************************)
MaxCells == 2     \* rows of the source table
MaxKeyLen == 3    \* characters of a region or substructure key

\* Sequences over S of length at most n
RECURSIVE SeqsUpTo(_, _)
SeqsUpTo(S, n) ==
    IF n = 0 THEN {<<>>}
    ELSE LET shorter == SeqsUpTo(S, n - 1)
         IN  shorter \cup {Append(s, e) : s \in shorter, e \in S}

\* Rows of the classification check
CellRows == {[class |-> c, subclass |-> s] : c \in ClassLabels, s \in SubclassLabels}

\* Region keys, and the (structure, substructure) pairs of the source table;
\* no record lies in region C
RegionA == <<"A">>
RegionB == <<"B">>
RegionC == <<"C">>
Regions == {RegionA, RegionB, RegionC}
Locations == {<<RegionA, <<"A", "1">>>>, <<RegionA, <<"A", "2">>>>, <<RegionB, <<"B", "1">>>>}

\* (class, subclass) pairs of the source table
CellKinds ==
    {<<<<"0","1"," ","I","T","-","E","T"," ","G","l","u","t">>,                   \* 01 IT-ET Glut
       <<"0","0","6"," ","L","4","/","5"," ","I","T"," ","C","T","X"," ","G","l","u","t">>>>, \* 006 L4/5 IT CTX Glut
     <<<<"0","1"," ","I","T","-","E","T"," ","G","l","u","t">>,                   \* 01 IT-ET Glut
       <<"0","2","2"," ","L","5"," ","E","T"," ","C","T","X"," ","G","l","u","t">>>>,  \* 022 L5 ET CTX Glut
     <<<<"0","1"," ","I","T","-","E","T"," ","G","l","u","t">>,                   \* 01 IT-ET Glut
       <<"0","1","6"," ","C","A","1","-","P","r","o","S"," ","G","l","u","t">>>>,  \* 016 CA1-ProS Glut
     <<<<"0","4"," ","D","G","-","I","M","N"," ","G","l","u","t">>,               \* 04 DG-IMN Glut
       <<"0","3","8"," ","D","G","-","P","I","R"," ","E","x"," ","I","M","N">>>>,  \* 038 DG-PIR Ex IMN
     <<<<"0","7"," ","C","T","X","-","M","G","E"," ","G","A","B","A">>,           \* 07 CTX-MGE GABA
       <<"0","5","2"," ","P","v","a","l","b"," ","G","a","b","a">>>>,             \* 052 Pvalb Gaba
     <<<<"0","7"," ","C","T","X","-","M","G","E"," ","G","A","B","A">>,           \* 07 CTX-MGE GABA
       <<"0","4","7"," ","S","n","c","g"," ","G","a","b","a">>>>,                 \* 047 Sncg Gaba
     <<<<"0","5"," ","O","B","-","I","M","N"," ","G","A","B","A">>,               \* 05 OB-IMN GABA
       <<"0","4","5"," ","O","B","-","S","T","R","-","C","T","X"," ","I","n","h"," ","I","M","N">>>>, \* 045 OB-STR-CTX Inh IMN
     <<<<"3","0"," ","A","s","t","r","o","-","E","p","e","n">>,                   \* 30 Astro-Epen
       <<"3","1","9"," ","A","s","t","r","o","-","T","E"," ","N","N">>>>}         \* 319 Astro-TE NN

TableRows ==
    {[class |-> k[1], subclass |-> k[2],
      parcellation_structure |-> l[1], parcellation_substructure |-> l[2]] :
        k \in CellKinds, l \in Locations}

\* One-record tables: a record of every class label and subclass label of the
\* classification check, in substructure A1 of region A
SingleRecordTables ==
    {<<[class |-> r.class, subclass |-> r.subclass,
        parcellation_structure |-> RegionA,
        parcellation_substructure |-> <<"A", "1">>]>> : r \in CellRows}

RegionLists ==
    {<<RegionA>>, <<RegionC>>, <<RegionA, RegionB>>, <<RegionB, RegionA>>,
     <<RegionA, RegionC>>, <<RegionC, RegionA>>}

KeyAlphabet == {"A", "B", "1"}

(***************************************************************************)
(* State                                                                   *)
(***************************************************************************)
VARIABLES
    area_cell_df,     \* the frame cell_meta_type_flags is working on
    pc_flags,         \* position inside cell_meta_type_flags
    ax,               \* cell_meta_type_ratios: the region key
    area_sumdf,       \* cell_meta_type_ratios: the count frame
    ratio_df,         \* cell_meta_type_ratios: the frame returned
    pc_ratios,        \* "call" before cell_meta_type_ratios ran, "done" after
    cell_ccf,         \* the source table, one row per cell
    entry,            \* the entry point called
    region_list,      \* the regions requested
    pc,               \* "call" before the entry point ran, "done" after
    region_cell_ccf,  \* the three maps of region_ccf_cell_types
    region_ctx_ccf,
    region_frac_ccf,
    result,           \* what run / region_cell_type_ratios returned
    raised,           \* the exception that left the entry point, or None
    in_iter,          \* DFBuilder.qry2dict: the query results passed in
    subr_stats,       \* DFBuilder.qry2dict: the rows returned
    pc_qry,           \* "call" before DFBuilder.qry2dict ran, "done" after
    pcache,           \* AbcProjectCache: its directories and which of its calls fail
    abc_data_key,     \* the dataset key the metadata is asked for
    meta_key,         \* the metadata file key, or None
    self_ccf_meta_file \* ABCDbMERFISH_CCFQuery.ccf_meta_file of the query object

varsFlags == <<area_cell_df, pc_flags>>
varsRatios == <<ax, area_sumdf, ratio_df, pc_ratios>>
varsRegions == <<cell_ccf, entry, region_list, pc, region_cell_ccf, region_ctx_ccf,
                 region_frac_ccf, result, raised>>
varsQry == <<in_iter, subr_stats, pc_qry>>
varsMeta == <<pcache, abc_data_key, meta_key, self_ccf_meta_file>>
vars == <<varsFlags, varsRatios, varsRegions, varsQry, varsMeta>>

\* The parts of the state an operation does not use
IdleFlags == area_cell_df = <<>> /\ pc_flags = "idle"
IdleRatios == ax = <<>> /\ area_sumdf = <<>> /\ ratio_df = <<>> /\ pc_ratios = "idle"
IdleRegions ==
    /\ cell_ccf = <<>> /\ entry = "idle" /\ region_list = <<>> /\ pc = "idle"
    /\ region_cell_ccf = <<>> /\ region_ctx_ccf = <<>> /\ region_frac_ccf = <<>>
    /\ result = [kind |-> "unset"] /\ raised = None
IdleQry == in_iter = <<>> /\ subr_stats = <<>> /\ pc_qry = "idle"
IdleMeta ==
    /\ pcache = [idle |-> TRUE]
    /\ abc_data_key = None /\ meta_key = None /\ self_ccf_meta_file = None

(***************************************************************************)
(* cell_meta_type_flags on one frame, one nested call per step             *)
(***************************************************************************)
InitFlags ==
    /\ area_cell_df \in {<<>>} \cup {<<r>> : r \in CellRows}
    /\ pc_flags = "ei"
    /\ IdleRatios /\ IdleRegions /\ IdleQry /\ IdleMeta

EiFlags ==
    /\ pc_flags = "ei"
    /\ area_cell_df' = cell_meta_ei_flags(area_cell_df)
    /\ pc_flags' = "gaba"
    /\ UNCHANGED <<varsRatios, varsRegions, varsQry, varsMeta>>

GabaFlags ==
    /\ pc_flags = "gaba"
    /\ area_cell_df' = cell_meta_gaba_flags(area_cell_df)
    /\ pc_flags' = "glut"
    /\ UNCHANGED <<varsRatios, varsRegions, varsQry, varsMeta>>

GlutFlags ==
    /\ pc_flags = "glut"
    /\ area_cell_df' = cell_meta_glut_flags(area_cell_df)
    /\ pc_flags' = "done"
    /\ UNCHANGED <<varsRatios, varsRegions, varsQry, varsMeta>>

NextFlags == EiFlags \/ GabaFlags \/ GlutFlags

SpecFlags == InitFlags /\ [][NextFlags]_vars

(***************************************************************************)
(* cell_meta_type_ratios on a one-row count frame, for every region key    *)
(* and substructure key                                                    *)
(***************************************************************************)
\* The counts of one excitatory IT-CTX cell
OneCellSums ==
    derived_T_EI(groupby_sum(cell_meta_type_flags(
        <<[class |-> <<"G","l","u","t">>,
           subclass |-> <<"0","0","4"," ","L","6"," ","I","T"," ","C","T","X"," ","G","l","u","t">>,
           parcellation_structure |-> <<>>,
           parcellation_substructure |-> <<>>]>>))[1][2])

InitRatios ==
    /\ ax \in SeqsUpTo(KeyAlphabet, MaxKeyLen)
    /\ \E x \in SeqsUpTo(KeyAlphabet, MaxKeyLen) : area_sumdf = <<<<x, OneCellSums>>>>
    /\ ratio_df = <<>>
    /\ pc_ratios = "call"
    /\ IdleFlags /\ IdleRegions /\ IdleQry /\ IdleMeta

CallCellMetaTypeRatios ==
    /\ pc_ratios = "call"
    /\ ratio_df' = cell_meta_type_ratios(area_sumdf, ax, 1)
    /\ pc_ratios' = "done"
    /\ UNCHANGED <<ax, area_sumdf, varsFlags, varsRegions, varsQry, varsMeta>>

NextRatios == CallCellMetaTypeRatios

SpecRatios == InitRatios /\ [][NextRatios]_vars

(***************************************************************************)
(* The entry points that take requested regions                            *)
(***************************************************************************)
InitRegions ==
    /\ cell_ccf \in SeqsUpTo(TableRows, MaxCells) \cup SingleRecordTables
    /\ \/ entry \in {"region_ccf_cell_types", "run"} /\ region_list \in RegionLists
       \/ entry = "region_cell_type_ratios" /\ region_list \in {<<r>> : r \in Regions}
    /\ pc = "call"
    /\ region_cell_ccf = <<>> /\ region_ctx_ccf = <<>> /\ region_frac_ccf = <<>>
    /\ result = [kind |-> "unset"] /\ raised = None
    /\ IdleFlags /\ IdleRatios /\ IdleQry /\ IdleMeta

\* region_ccf_cell_types(cell_ccf, region_list), called directly
CallRegionCcfCellTypes ==
    /\ pc = "call" /\ entry = "region_ccf_cell_types"
    /\ \E maps \in {region_ccf_cell_types(cell_ccf, region_list)} :
           /\ region_cell_ccf' = maps.cell
           /\ region_ctx_ccf' = maps.ctx
           /\ region_frac_ccf' = maps.frac
           /\ result' = [kind |-> "maps"]
    /\ pc' = "done"
    /\ UNCHANGED <<cell_ccf, entry, region_list, raised, varsFlags, varsRatios, varsQry, varsMeta>>

\* rdf.to_dict(orient="index"): index -> {column -> value}, in index order
to_dict_index(rdf) == [i \in DOMAIN rdf |-> <<rdf[i][1], rdf[i][2]>>]

\* ABCDbMERFISH_CCFQuery.run(exec_params) with exec_params.region = region_list;
\* cell_ccf is the table read from self.ccf_meta_file
CallRun ==
    /\ pc = "call" /\ entry = "run"
    /\ \E maps \in {region_ccf_cell_types(cell_ccf, region_list)} :
           /\ region_cell_ccf' = maps.cell
           /\ region_ctx_ccf' = maps.ctx
           /\ region_frac_ccf' = maps.frac
           /\ result' = [kind |-> "list",
                         value |-> <<[i \in DOMAIN maps.frac |->
                                        <<maps.frac[i][1], to_dict_index(maps.frac[i][2])>>]>>]
    /\ pc' = "done"
    /\ UNCHANGED <<cell_ccf, entry, region_list, raised, varsFlags, varsRatios, varsQry, varsMeta>>

\* region_cell_type_ratios(region_name, download_base) with region_list = [region_name];
\* abc_cache_download_meta returns a path or None
CallRegionCellTypeRatios ==
    /\ pc = "call" /\ entry = "region_cell_type_ratios"
    /\ \E ccf_meta_file \in {"path", None} :
          IF ccf_meta_file = None
          THEN /\ result' = [kind |-> "None"]
               /\ UNCHANGED <<region_cell_ccf, region_ctx_ccf, region_frac_ccf, raised>>
          ELSE LET region_name == region_list[1] IN
               \E maps \in {region_ccf_cell_types(cell_ccf, <<region_name>>)} :
                   /\ region_cell_ccf' = maps.cell
                   /\ region_ctx_ccf' = maps.ctx
                   /\ region_frac_ccf' = maps.frac
                   /\ IF DictHas(maps.frac, region_name)
                      THEN /\ result' = [kind |-> "frame", value |-> DictGet(maps.frac, region_name)]
                           /\ UNCHANGED raised
                      ELSE /\ raised' = "KeyError"
                           /\ UNCHANGED result
    /\ pc' = "done"
    /\ UNCHANGED <<cell_ccf, entry, region_list, varsFlags, varsRatios, varsQry, varsMeta>>

Next == CallRegionCcfCellTypes \/ CallRun \/ CallRegionCellTypeRatios

Init == InitRegions

Spec == Init /\ [][Next]_vars

(***************************************************************************)
(* Properties of the classifier (checked under SpecFlags)                  *)
(***************************************************************************)
\* Number of the columns cols that are true in row
NTrue(row, cols) == Cardinality({c \in cols : row[c]})

EIO == {"E", "I", "O"}
GabaPartition == {"Vip", "Pvalb", "Sst", "Lamp5", "Sst-Chodl", "GABA-Other"}
GlutPartition == {"ET", "CT", "NP", "IT", "Glut-Other"}
ITPartition == {"IT-ENT", "IT-CTX", "IT-Other"}

\* The rows of the frame once cell_meta_ei_flags has run
EiRows == IF pc_flags \in {"gaba", "glut", "done"}
          THEN {area_cell_df[i] : i \in DOMAIN area_cell_df} ELSE {}
\* The rows of the frame cell_meta_type_flags returns
TypedRows == IF pc_flags = "done"
             THEN {area_cell_df[i] : i \in DOMAIN area_cell_df} ELSE {}

\* C1: in every record classified by cell_meta_ei_flags, whatever its class
\* label, exactly one of the flags E, I, O is true.
C1_ExactlyOneOfEIO == \A row \in EiRows : NTrue(row, EIO) = 1

\* C1 witness: a classified record whose class label is not empty and which
\* fell to O.
C1_Witness == \E row \in EiRows : row["O"] /\ row["class"] # <<>>

\* C2 as stated: every record of cell_meta_type_flags with I true has exactly
\* one of the six GABA flags true.
C2_Original == \A row \in TypedRows :
    row["I"] => NTrue(row, GabaPartition) = 1

\* C2 amended: the six GABA flags partition the records whose GABA flag is
\* true, i.e. whose subclass label ends with "Gaba": such a record has
\* exactly one of them true and every other record none.  A record with I
\* true therefore has exactly one when its subclass label ends with "Gaba"
\* and none otherwise.
C2_GabaFlagsPartitionGABA == \A row \in TypedRows :
    /\ row["GABA"] = endswith(row["subclass"], STR_Gaba)
    /\ NTrue(row, GabaPartition) = (IF row["GABA"] THEN 1 ELSE 0)

\* C2 witness: an inhibitory record (I and GABA true) in the GABA-Other bucket.
C2_Witness == \E row \in TypedRows : row["I"] /\ row["GABA"] /\ row["GABA-Other"]

\* C3 as stated: every record of cell_meta_type_flags with E true has exactly
\* one of the five Glut flags true.
C3_Original == \A row \in TypedRows :
    row["E"] => NTrue(row, GlutPartition) = 1

\* C3 amended: the five Glut flags partition the records whose Glut flag is
\* true, i.e. whose subclass label ends with "Glut": such a record has
\* exactly one of them true and every other record none.  A record with E
\* true therefore has exactly one when its subclass label ends with "Glut"
\* and none otherwise.
C3_GlutFlagsPartitionGlut == \A row \in TypedRows :
    /\ row["Glut"] = endswith(row["subclass"], STR_Glut)
    /\ NTrue(row, GlutPartition) = (IF row["Glut"] THEN 1 ELSE 0)

\* C3 witness: an excitatory record (E and Glut true) flagged IT.
C3_Witness == \E row \in TypedRows : row["E"] /\ row["Glut"] /\ row["IT"]

\* C4: a record with IT true has exactly one of IT-ENT, IT-CTX, IT-Other true,
\* and IT is true whenever one of the three is; the IT label set is the union
\* of the three IT-subtype label sets, which are pairwise disjoint.
C4_ITPartition ==
    /\ \A row \in TypedRows :
          /\ row["IT"] => NTrue(row, ITPartition) = 1
          /\ NTrue(row, ITPartition) >= 1 => row["IT"]
    /\ GLUT_SUBCLASS_SETMAP["IT"] = UNION {GLUT_IT_SUBCLASS_SETMAP[k] : k \in ITPartition}
    /\ \A k1, k2 \in ITPartition :
          k1 # k2 => GLUT_IT_SUBCLASS_SETMAP[k1] \cap GLUT_IT_SUBCLASS_SETMAP[k2] = {}

\* C4 witness: a record flagged IT through the IT-Other label set.
C4_Witness == \E row \in TypedRows : row["IT"] /\ row["IT-Other"]

\* C5 as stated: I iff the subclass label ends with the inhibitory suffix
\* marker, E iff the class label ends with the excitatory suffix marker, O iff
\* neither.
C5_Original == \A row \in EiRows :
    /\ row["I"] = endswith(row["subclass"], STR_Gaba)
    /\ row["E"] = endswith(row["class"], STR_Glut)
    /\ row["O"] = (~endswith(row["subclass"], STR_Gaba) /\ ~endswith(row["class"], STR_Glut))

\* C5 amended: I iff the class label ends with "GABA", E iff the class label
\* ends with "Glut", O iff neither; the subclass label plays no part.
C5_LineageFlagsFromClass == \A row \in EiRows :
    /\ row["I"] = endswith(row["class"], STR_GABA)
    /\ row["E"] = endswith(row["class"], STR_Glut)
    /\ row["O"] = (~endswith(row["class"], STR_GABA) /\ ~endswith(row["class"], STR_Glut))

\* C5 witness: a record with I true whose subclass label does not end with
\* "Gaba".
C5_Witness == \E row \in EiRows : row["I"] /\ ~endswith(row["subclass"], STR_Gaba)

(***************************************************************************)
(* Properties of the aggregation and the fractions (checked under Spec)    *)
(* and of the Layer label (checked under SpecRatios)                       *)
(***************************************************************************)
\* <<region, substructure>> of every count row of the finished call
CountRowIds ==
    IF pc # "done" THEN {}
    ELSE UNION {{<<region_ctx_ccf[r][1], region_ctx_ccf[r][2][j][1]>> :
                    j \in DOMAIN region_ctx_ccf[r][2]} : r \in DOMAIN region_ctx_ccf}

CountRow(id) == DictGet(DictGet(region_ctx_ccf, id[1]), id[2])
HasFractionRow(id) ==
    DictHas(region_frac_ccf, id[1]) /\ DictHas(DictGet(region_frac_ccf, id[1]), id[2])
FractionRow(id) == DictGet(DictGet(region_frac_ccf, id[1]), id[2])

\* Number of the flagged records of the region that lie in the substructure
\* and have the flag column true
FlaggedRecords(id, column) ==
    LET cells == DictGet(region_cell_ccf, id[1])
    IN  Cardinality({i \in DOMAIN cells :
                        cells[i][PARCELLATION_SUBSTRUCTURE] = id[2] /\ cells[i][column]})

\* C6: in every per-substructure count row, E, I and O are the sums of the
\* per-record flags of the substructure's records, T = E + I + O and
\* EI = E + I.
C6_DerivedTotals == \A id \in CountRowIds :
    LET nE == FlaggedRecords(id, "E")
        nI == FlaggedRecords(id, "I")
        nO == FlaggedRecords(id, "O")
    IN  /\ CountRow(id)["E"] = nE /\ CountRow(id)["I"] = nI /\ CountRow(id)["O"] = nO
        /\ CountRow(id)["T"] = nE + nI + nO
        /\ CountRow(id)["EI"] = nE + nI

\* C6 witness: a count row of a substructure that holds an excitatory record
\* and a record that is neither excitatory nor inhibitory.
C6_Witness == \E id \in CountRowIds : CountRow(id)["E"] > 0 /\ CountRow(id)["O"] > 0

\* C7: every count row has a fraction row; when EI > 0 its inhibitory
\* fraction is the number I/EI and lies in [0, 1]; when EI = 0 it is NaN
\* (not zero, not infinity).
C7_InhibitoryFraction == \A id \in CountRowIds :
    /\ HasFractionRow(id)
    /\ LET f == FractionRow(id)[INHIBITORY_FRACTION_COLUMN]
           nI == CountRow(id)["I"]
           nEI == CountRow(id)["EI"]
       IN  /\ nEI > 0 => /\ IsFinite(f)
                         /\ f.num * nEI = nI * f.den
                         /\ 0 <= f.num /\ f.num <= f.den
           /\ nEI = 0 => IsNaN(f)

\* C7 witness: a region with one substructure whose EI is 0 and another whose
\* inhibitory fraction is a number.
C7_Witness == \E id1, id2 \in CountRowIds :
    /\ id1[1] = id2[1]
    /\ CountRow(id1)["EI"] = 0 /\ IsNaN(FractionRow(id1)[INHIBITORY_FRACTION_COLUMN])
    /\ CountRow(id2)["I"] > 0 /\ IsFinite(FractionRow(id2)[INHIBITORY_FRACTION_COLUMN])

\* The parent total the claim names for each subtype column
C8_GabaSubtypes == {"Vip", "Pvalb", "Sst", "Lamp5", "Sst-Chodl"}
C8_GlutSubtypes == {"ET", "CT", "NP", "IT", "IT-ENT", "IT-CTX", "IT-Other"}

\* C8: every subtype fraction is subtype count / parent total, the parent
\* being the GABA count for the GABA subtypes and the Glut count for the Glut
\* and IT subtypes; when the parent total is 0 the fraction is NaN, never
\* zero.
C8_SubtypeFractions == \A id \in CountRowIds :
    /\ HasFractionRow(id)
    /\ \A colx \in C8_GabaSubtypes \cup C8_GlutSubtypes :
          LET f == FractionRow(id)[colx \o " fraction"]
              count == CountRow(id)[colx]
              parent == CountRow(id)[IF colx \in C8_GabaSubtypes THEN "GABA" ELSE "Glut"]
          IN  /\ parent > 0 => IsFinite(f) /\ f.num * parent = count * f.den
              /\ parent = 0 => IsNaN(f)

\* C8 witness: a substructure without GABA records, with an IT record and
\* another Glut record: its GABA subtype fractions are NaN and its IT
\* fraction is a number below 1.
C8_Witness == \E id \in CountRowIds :
    /\ CountRow(id)["GABA"] = 0 /\ IsNaN(FractionRow(id)["Pvalb fraction"])
    /\ CountRow(id)["IT"] > 0 /\ CountRow(id)["Glut"] > CountRow(id)["IT"]
    /\ IsFinite(FractionRow(id)["IT-CTX fraction"])

\* str.startswith
startswith(s, prefix) == Len(s) >= Len(prefix) /\ SubSeq(s, 1, Len(prefix)) = prefix

\* C9: the Layer label is the substructure key with the region key removed
\* only as a leading prefix; a substructure key that does not start with the
\* region key is left as it is.
C9_Original ==
    pc_ratios = "done" =>
        \A i \in DOMAIN ratio_df :
            LET x == ratio_df[i][1]
            IN  ratio_df[i][2]["Layer"] =
                    (IF startswith(x, ax) THEN SubSeq(x, Len(ax) + 1, Len(x)) ELSE x)

\* The source table holds a record of the region
HasRecords(region) ==
    \E i \in DOMAIN cell_ccf : cell_ccf[i][PARCELLATION_STRUCTURE] = region

\* C10: whichever entry point is called, with the metadata at hand, the call
\* does not raise, a requested region without records contributes nothing
\* and every requested region with records is processed.
C10_Original ==
    (pc = "done" /\ result.kind # "None") =>
        /\ raised = None
        /\ \A region \in Range(region_list) :
              DictHas(region_frac_ccf, region) <=> HasRecords(region)

\* The substructure values that occur among the records of the region in the
\* source table
SubstructuresOf(region) ==
    {cell_ccf[i][PARCELLATION_SUBSTRUCTURE] :
        i \in {k \in DOMAIN cell_ccf : cell_ccf[k][PARCELLATION_STRUCTURE] = region}}

\* The regions the finished call has processed
ProcessedRegions == IF pc = "done" THEN DictKeys(region_ctx_ccf) ELSE {}

\* C11: for every processed region the count table and the fraction table
\* hold exactly one row per distinct substructure value that occurs among the
\* region's records, and no row for any other substructure.
C11_OneRowPerSubstructure == \A region \in ProcessedRegions :
    /\ DictHas(region_frac_ccf, region)
    /\ LET ctx == DictGet(region_ctx_ccf, region)
           frac == DictGet(region_frac_ccf, region)
       IN  /\ DictKeys(ctx) = SubstructuresOf(region)
           /\ Len(ctx) = Cardinality(SubstructuresOf(region))
           /\ DictKeys(frac) = SubstructuresOf(region)
           /\ Len(frac) = Cardinality(SubstructuresOf(region))

\* C11 witness: a processed region whose two records lie in one substructure,
\* while the region's other substructure has none.
C11_Witness == \E region \in ProcessedRegions :
    /\ Len(DictGet(region_ctx_ccf, region)) = 1
    /\ DictGet(region_ctx_ccf, region)[1][2]["T"] = 2


(***************************************************************************)
(* DFBuilder: flattening query results into rows.                          *)
(*                                                                         *)
(* A Python value is a record: t is "scalar" or "map"; a scalar keeps its  *)
(* number in n; a map keeps its items in v as <<key, value>> pairs in      *)
(* insertion order, as a dict iterates them.                               *)
(***************************************************************************)
Scalar(n) == [t |-> "scalar", v |-> <<>>, n |-> n]
Mapping(items) == [t |-> "map", v |-> items, n |-> 0]

\* isinstance(x, collections.abc.Mapping)
isinstance_Mapping(x) == x.t = "map"

\* dict.values(): the values in insertion order
values(dct) == [i \in DOMAIN dct.v |-> dct.v[i][2]]

has_sub_region_Never(region_dct) == FALSE

\* DFBuilder.has_sub_region: any value of the region map is itself a map
has_sub_region(region_dct) ==
    \E i \in DOMAIN region_dct.v : isinstance_Mapping(region_dct.v[i][2])

region_rows_Always(region_dct) == values(region_dct)

\* The rows one region value contributes: each of its values when it has a
\* sub region, else the value itself
region_rows(region_dct) ==
    IF has_sub_region(region_dct) THEN values(region_dct) ELSE <<region_dct>>

append_rows_Front(stats, rows) == rows \o stats

\* subr_stats.append(...) for each row in turn
append_rows(stats, rows) == stats \o rows

\* for _rx, region_dct in qry_result.items(): from item j on
RECURSIVE qry_result_loop(_, _, _)
qry_result_loop(qry_result, j, stats) ==
    IF j > Len(qry_result.v) THEN stats
    ELSE qry_result_loop(qry_result, j + 1,
                         append_rows(stats, region_rows(qry_result.v[j][2])))

\* for qry_result in in_iter: from result i on
RECURSIVE in_iter_loop(_, _, _)
in_iter_loop(iter, i, stats) ==
    IF i > Len(iter) THEN stats
    ELSE in_iter_loop(iter, i + 1, qry_result_loop(iter[i], 1, stats))

\* DFBuilder.qry2dict
qry2dict(iter) == in_iter_loop(iter, 1, <<>>)

\* The longest input sequence of query results
MaxResults == 2

\* Metrics maps (column -> number), substructure maps, and the region values
\* built from them
MetricsMap(n) == Mapping(<< <<"T", Scalar(n)>>, <<"EI", Scalar(n)>> >>)
EmptyMap == Mapping(<<>>)
SubstructureMap12 == Mapping(<< <<"A1", MetricsMap(1)>>, <<"A2", MetricsMap(2)>> >>)
SubstructureMap21 == Mapping(<< <<"A2", MetricsMap(2)>>, <<"A1", MetricsMap(1)>> >>)
MixedMap == Mapping(<< <<"A1", MetricsMap(1)>>, <<"nregion", Scalar(3)>> >>)
SubRegionMap == Mapping(<< <<"S1", SubstructureMap21>>, <<"S2", SubstructureMap12>> >>)
RegionValues ==
    {MetricsMap(1), EmptyMap, SubstructureMap12, SubstructureMap21, MixedMap,
     SubRegionMap}

\* Query results: maps from region to region value, of up to two regions
QryResults ==
    {Mapping(<<>>)}
    \cup {Mapping(<< <<RegionA, a>> >>) : a \in RegionValues}
    \cup {Mapping(<< <<RegionA, a>>, <<RegionB, b>> >>) :
              a \in RegionValues, b \in RegionValues}

\* The input sequences of query results
InIters == SeqsUpTo(QryResults, MaxResults)

InitQry ==
    /\ in_iter \in InIters
    /\ subr_stats = <<>>
    /\ pc_qry = "call"
    /\ IdleFlags /\ IdleRatios /\ IdleRegions /\ IdleMeta

\* One call of DFBuilder.qry2dict(in_iter)
CallQry2Dict ==
    /\ pc_qry = "call"
    /\ subr_stats' = qry2dict(in_iter)
    /\ pc_qry' = "done"
    /\ UNCHANGED <<in_iter, varsFlags, varsRatios, varsRegions, varsMeta>>

NextQry == CallQry2Dict

SpecQry == InitQry /\ [][NextQry]_vars

(***************************************************************************)
(* Claims about the flattener.                                             *)
(***************************************************************************)
\* The regions of the input: <<i, j>> is item j of result i
RegionIds == UNION {{<<i, j>> : j \in DOMAIN in_iter[i].v} : i \in DOMAIN in_iter}
RegionValue(id) == in_iter[id[1]].v[id[2]][2]

\* A map none of whose values is a map
IsFlat(m) == m.t = "map" /\ \A i \in DOMAIN m.v : m.v[i][2].t = "scalar"

\* The number of rows equal to m, and of regions whose value is m
RowCount(m) == Cardinality({n \in DOMAIN subr_stats : subr_stats[n] = m})
RegionCount(m) == Cardinality({id \in RegionIds : RegionValue(id) = m})

\* C12: a result whose region value is a map with no map-valued entries gives
\* exactly one row for that region, equal to the value map: a single such
\* region gives the one-row list of its value, an input of such regions only
\* gives as many rows as regions, each value as often as it is a region's
\* value, and in every input each such value is a row at least as often as it
\* is a region's value.
C12_FlatRegionIsOneRow ==
    pc_qry = "done" =>
        /\ (Cardinality(RegionIds) = 1 /\ \A id \in RegionIds : IsFlat(RegionValue(id)))
               => \A id \in RegionIds : subr_stats = <<RegionValue(id)>>
        /\ (\A id \in RegionIds : IsFlat(RegionValue(id)))
               => /\ Len(subr_stats) = Cardinality(RegionIds)
                  /\ \A m \in RegionValues : RowCount(m) = RegionCount(m)
        /\ \A id \in RegionIds :
               IsFlat(RegionValue(id)) => RowCount(RegionValue(id)) >= RegionCount(RegionValue(id))

\* C12 witness: two results, flat region values only, one of them the empty map
C12_Witness ==
    /\ pc_qry = "done"
    /\ Len(in_iter) = 2
    /\ \A id \in RegionIds : IsFlat(RegionValue(id))
    /\ subr_stats = <<MetricsMap(1), EmptyMap, MetricsMap(1)>>


\* The two shapes of region value the description of the flattener names: a
\* map from substructure to metrics map, and a map from sub region to such maps
IsSubstructureMap(m) ==
    m.t = "map" /\ Len(m.v) > 0 /\ \A i \in DOMAIN m.v : IsFlat(m.v[i][2])
IsSubRegionMap(m) ==
    m.t = "map" /\ Len(m.v) > 0 /\ \A i \in DOMAIN m.v : IsSubstructureMap(m.v[i][2])

\* The innermost metrics maps of a region value of either shape, as paths:
\* <<k>> in a substructure map, <<k, l>> in a sub region map
MetricsPaths(m) ==
    IF IsSubstructureMap(m) THEN {<<k>> : k \in DOMAIN m.v}
    ELSE UNION {{<<k, l>> : l \in DOMAIN m.v[k][2].v} : k \in DOMAIN m.v}
MetricsIds == UNION {{<<id, p>> : p \in MetricsPaths(RegionValue(id))} : id \in RegionIds}

\* C13 as stated: for both shapes (substructure -> metrics map, and sub region
\* -> (substructure -> metrics map)) there is exactly one row per innermost
\* metrics map and no row has a map among its values.
C13_Original ==
    (/\ pc_qry = "done"
     /\ \A id \in RegionIds :
            IsSubstructureMap(RegionValue(id)) \/ IsSubRegionMap(RegionValue(id)))
        => /\ Len(subr_stats) = Cardinality(MetricsIds)
           /\ \A n \in DOMAIN subr_stats : IsFlat(subr_stats[n])

\* C13: the flattener removes one level.  When every region value is a metrics
\* map or a map from substructure to metrics map, there is exactly one row per
\* innermost metrics map and every row is such a map.  A region value that is
\* a map from sub region to (substructure -> metrics map) gives one row per sub
\* region, and that row is the sub region's substructure map, whose values are
\* maps.
C13_OneLevelFlattened ==
    pc_qry = "done" =>
        /\ (\A id \in RegionIds :
                IsFlat(RegionValue(id)) \/ IsSubstructureMap(RegionValue(id)))
            => /\ Len(subr_stats) =
                      Cardinality({id \in RegionIds : IsFlat(RegionValue(id))})
                      + Cardinality({mid \in MetricsIds : IsSubstructureMap(RegionValue(mid[1]))})
               /\ \A n \in DOMAIN subr_stats : IsFlat(subr_stats[n])
        /\ (\A id \in RegionIds : IsSubRegionMap(RegionValue(id)))
            => /\ Len(subr_stats) =
                      Cardinality(UNION {{<<id, k>> : k \in DOMAIN RegionValue(id).v} : id \in RegionIds})
               /\ \A n \in DOMAIN subr_stats : IsSubstructureMap(subr_stats[n])
               /\ \A id \in RegionIds : \A k \in DOMAIN RegionValue(id).v :
                      \E n \in DOMAIN subr_stats : subr_stats[n] = RegionValue(id).v[k][2]

\* C13 witness: a finished call on one region of each of the two handled
\* shapes, giving the three metrics maps as rows
C13_Witness ==
    /\ pc_qry = "done"
    /\ in_iter = << Mapping(<< <<RegionA, SubstructureMap21>>, <<RegionB, MetricsMap(1)>> >>) >>
    /\ subr_stats = <<MetricsMap(2), MetricsMap(1), MetricsMap(1)>>

\* C13 second case reached: a sub region map flattened into its two
\* substructure maps
C13_SubRegionRows ==
    /\ pc_qry = "done"
    /\ in_iter = << Mapping(<< <<RegionA, SubRegionMap>> >>) >>
    /\ subr_stats = <<SubstructureMap21, SubstructureMap12>>

\* The sources of rows: <<i, j, k>> is value k of region j of result i, and
\* <<i, j, 0>> the region value itself when none of its values is a map
IsNested(m) == \E k \in DOMAIN m.v : m.v[k][2].t = "map"
Sources ==
    UNION {{<<id[1], id[2], k>> :
                k \in IF IsNested(RegionValue(id)) THEN DOMAIN RegionValue(id).v ELSE {0}} :
           id \in RegionIds}
SourceValue(s) ==
    IF s[3] = 0 THEN in_iter[s[1]].v[s[2]][2] ELSE in_iter[s[1]].v[s[2]][2].v[s[3]][2]

\* s comes before u in (input position, outer position, inner position)
TraversedBefore(s, u) ==
    \/ s[1] < u[1]
    \/ s[1] = u[1] /\ s[2] < u[2]
    \/ s[1] = u[1] /\ s[2] = u[2] /\ s[3] < u[3]
TraversalRank(s) == Cardinality({u \in Sources : TraversedBefore(u, s)}) + 1

\* C14: the rows are the sources in traversal order: there are as many rows as
\* sources, and the row of a source stands at the position given by the number
\* of sources that come before it in (position in the input sequence, position
\* in the region map, position in the inner map); so no row is dropped or
\* reordered.
C14_TraversalOrder ==
    pc_qry = "done" =>
        /\ Len(subr_stats) = Cardinality(Sources)
        /\ \A s \in Sources : subr_stats[TraversalRank(s)] = SourceValue(s)

\* C14 witness: two results, the second with a nested region after a flat one,
\* and the rows in the order of the traversal
C14_Witness ==
    /\ pc_qry = "done"
    /\ in_iter = << Mapping(<< <<RegionA, SubstructureMap21>> >>),
                    Mapping(<< <<RegionA, EmptyMap>>, <<RegionB, MixedMap>> >>) >>
    /\ subr_stats = <<MetricsMap(2), MetricsMap(1), EmptyMap, MetricsMap(1), Scalar(3)>>


(***************************************************************************)
(* The end-to-end scenario: one region, substructure A with three          *)
(* excitatory and two inhibitory records, substructure B with one record   *)
(* of each lineage.                                                        *)
(***************************************************************************)
SubstructureA == <<"A", "1">>
SubstructureB == <<"A", "2">>
GlutClass == <<"0","1"," ","I","T","-","E","T"," ","G","l","u","t">>      \* 01 IT-ET Glut
GabaClass == <<"0","7"," ","C","T","X","-","M","G","E"," ","G","A","B","A">>  \* 07 CTX-MGE GABA
OtherClass == <<"3","0"," ","A","s","t","r","o","-","E","p","e","n">>     \* 30 Astro-Epen
UntaggedGlut == <<"0","1","6"," ","C","A","1","-","P","r","o","S"," ","G","l","u","t">>  \* 016 CA1-ProS Glut
UntaggedGaba == <<"0","4","7"," ","S","n","c","g"," ","G","a","b","a">>   \* 047 Sncg Gaba
OtherSubclass == <<"3","1","9"," ","A","s","t","r","o","-","T","E"," ","N","N">>  \* 319 Astro-TE NN

CellRecord(class, subclass, substructure) ==
    [class |-> class, subclass |-> subclass,
     parcellation_structure |-> RegionA, parcellation_substructure |-> substructure]

\* The records of substructure A, with the IT labels and the Pvalb label given
ScenarioA(it1, it2, pvalb) ==
    << CellRecord(GlutClass, it1, SubstructureA),
       CellRecord(GabaClass, pvalb, SubstructureA),
       CellRecord(GlutClass, UntaggedGlut, SubstructureA),
       CellRecord(GlutClass, it2, SubstructureA),
       CellRecord(GabaClass, UntaggedGaba, SubstructureA) >>

\* The records of substructure B: one excitatory and one inhibitory record,
\* and with other = TRUE also one record that is neither
ScenarioB(other) ==
    << CellRecord(GabaClass, UntaggedGaba, SubstructureB),
       CellRecord(GlutClass, UntaggedGlut, SubstructureB) >>
    \o (IF other THEN <<CellRecord(OtherClass, OtherSubclass, SubstructureB)>> ELSE <<>>)

ScenarioTables ==
    UNION {{ScenarioA(it1, it2, pvalb) \o ScenarioB(other),
            ScenarioB(other) \o ScenarioA(it1, it2, pvalb)} :
               it1 \in GLUT_SUBCLASS_SETMAP["IT"], it2 \in GLUT_SUBCLASS_SETMAP["IT"],
               pvalb \in GABA_SUBCLASS_SETMAP["Pvalb"], other \in BOOLEAN}

InitScenario ==
    /\ cell_ccf \in ScenarioTables
    /\ \/ entry \in {"region_ccf_cell_types", "run"}
          /\ region_list \in {<<RegionA>>, <<RegionC, RegionA>>}
       \/ entry = "region_cell_type_ratios" /\ region_list = <<RegionA>>
    /\ pc = "call"
    /\ region_cell_ccf = <<>> /\ region_ctx_ccf = <<>> /\ region_frac_ccf = <<>>
    /\ result = [kind |-> "unset"] /\ raised = None
    /\ IdleFlags /\ IdleRatios /\ IdleQry /\ IdleMeta

SpecScenario == InitScenario /\ [][Next]_vars

\* The row of substructure A was produced
ScenarioProcessed == pc = "done" /\ DictHas(region_ctx_ccf, RegionA)
ScenarioCountRow == CountRow(<<RegionA, SubstructureA>>)
ScenarioFractionRow == FractionRow(<<RegionA, SubstructureA>>)

\* The counts and the fractions of substructure A the scenario shares with the
\* code
ScenarioCountsAndFractions ==
    /\ ScenarioCountRow["E"] = 3 /\ ScenarioCountRow["I"] = 2 /\ ScenarioCountRow["O"] = 0
    /\ ScenarioCountRow["T"] = 5 /\ ScenarioCountRow["EI"] = 5
    /\ ScenarioCountRow["IT"] = 2 /\ ScenarioCountRow["Glut-Other"] = 1
    /\ ScenarioCountRow["Pvalb"] = 1 /\ ScenarioCountRow["GABA-Other"] = 1
    /\ ScenarioFractionRow[INHIBITORY_FRACTION_COLUMN] = [num |-> 2, den |-> 5]
    /\ ScenarioFractionRow["IT fraction"] = [num |-> 2, den |-> 3]
    /\ ScenarioFractionRow["Pvalb fraction"] = [num |-> 1, den |-> 2]

\* C15 as stated: the counts and fractions above, and substructure share 5/6.
C15_Original ==
    /\ (pc = "done" /\ entry # "region_cell_type_ratios") => ScenarioProcessed
    /\ ScenarioProcessed =>
           /\ ScenarioCountsAndFractions
           /\ ScenarioFractionRow[FRACTION_WI_REGION_COLUMN] = [num |-> 5, den |-> 6]

\* C15: in the scenario the count row of A is E=3, I=2, O=0, T=5, EI=5, IT=2,
\* Glut-Other=1, Pvalb=1, GABA-Other=1 and its fraction row has inhibitory
\* fraction 2/5, IT fraction 2/3 and Pvalb fraction 1/2; the substructure
\* share is 5 over the number of records of the region: 5/7 when B holds one
\* excitatory and one inhibitory record, 5/8 when it also holds a record that
\* is neither.
C15_ScenarioRows ==
    /\ (pc = "done" /\ entry # "region_cell_type_ratios") => ScenarioProcessed
    /\ ScenarioProcessed =>
           /\ ScenarioCountsAndFractions
           /\ ScenarioFractionRow["nregion"] = Len(cell_ccf)
           /\ ScenarioFractionRow[FRACTION_WI_REGION_COLUMN] =
                  IF Len(cell_ccf) = 7 THEN [num |-> 5, den |-> 7] ELSE [num |-> 5, den |-> 8]

\* C15 witness: the scenario with two records in B, processed through run
C15_Witness ==
    /\ ScenarioProcessed /\ entry = "run" /\ Len(cell_ccf) = 7
    /\ ScenarioFractionRow[FRACTION_WI_REGION_COLUMN] = [num |-> 5, den |-> 7]


(***************************************************************************)
(* Claims about the whole region loop (checked under Spec).                *)
(***************************************************************************)
\* The finished call ran the loop over region_list
LoopDone ==
    /\ pc = "done"
    /\ entry \in {"region_ccf_cell_types", "run"} \/ result.kind = "frame" \/ raised # None

FlaggedRows ==
    IF pc # "done" THEN {}
    ELSE UNION {{region_cell_ccf[r][2][i] : i \in DOMAIN region_cell_ccf[r][2]} :
                    r \in DOMAIN region_cell_ccf}

\* C18: in every flagged record each GABA subtype flag implies GABA and each
\* Glut or IT subtype flag implies Glut; so in every count row each subtype
\* count is at most its parent total, GABA = Vip + Pvalb + Sst + Lamp5 +
\* Sst-Chodl + GABA-Other, Glut = ET + CT + NP + IT + Glut-Other, and every
\* subtype fraction is NaN or a number in [0, 1], never a positive count over
\* zero.
C18_SubtypeWithinParent ==
    /\ \A row \in FlaggedRows :
          /\ \A c \in GabaPartition : row[c] => row["GABA"]
          /\ \A c \in GlutPartition \cup ITPartition : row[c] => row["Glut"]
    /\ \A id \in CountRowIds :
          LET cnt == CountRow(id)
          IN  /\ \A c \in GabaPartition : cnt[c] <= cnt["GABA"]
              /\ \A c \in GlutPartition \cup ITPartition : cnt[c] <= cnt["Glut"]
              /\ cnt["GABA"] = cnt["Vip"] + cnt["Pvalb"] + cnt["Sst"] + cnt["Lamp5"]
                                   + cnt["Sst-Chodl"] + cnt["GABA-Other"]
              /\ cnt["Glut"] = cnt["ET"] + cnt["CT"] + cnt["NP"] + cnt["IT"] + cnt["Glut-Other"]
              /\ \A colx \in C8_GabaSubtypes \cup C8_GlutSubtypes :
                    LET f == FractionRow(id)[colx \o " fraction"]
                    IN  /\ ~IsInf(f)
                        /\ IsFinite(f) => 0 <= f.num /\ f.num <= f.den

\* C18 witness: a count row of a Pvalb record and another GABA record, whose
\* Pvalb fraction is a number strictly between 0 and 1
C18_Witness == \E id \in CountRowIds :
    /\ CountRow(id)["Pvalb"] = 1 /\ CountRow(id)["GABA"] = 2
    /\ FractionRow(id)["Pvalb fraction"] = [num |-> 1, den |-> 2]

\* The sum of column col over the rows of a table
RECURSIVE ColumnSum(_, _, _)
ColumnSum(table, col, j) ==
    IF j > Len(table) THEN 0 ELSE table[j][2][col] + ColumnSum(table, col, j + 1)

\* The sum of the fractions of column col over the rows of a table, all of
\* them over the denominator n: the sum of their numerators scaled to n
RECURSIVE ScaledSum(_, _, _, _)
ScaledSum(table, col, n, j) ==
    IF j > Len(table) THEN 0
    ELSE (table[j][2][col].num * n) \div table[j][2][col].den + ScaledSum(table, col, n, j + 1)

\* Number of the records of the source table that lie in the region
RegionRecordCount(region) ==
    Cardinality({i \in DOMAIN cell_ccf : cell_ccf[i][PARCELLATION_STRUCTURE] = region})

PARCEL_META_DATA_KEY == "cell_metadata_with_parcellation_annotation"
MERFISH_CCF_DATASET_KEY == "MERFISH-C57BL6J-638850-CCF"
OtherDatasetKey == "WMB-10X"
DatasetKeys == {MERFISH_CCF_DATASET_KEY, OtherDatasetKey}

\* s3_ok: from_s3_cache returns; manifest_ok: load_manifest /
\* load_latest_manifest returns; directory_ok, path_ok: get_directory_metadata,
\* get_metadata_path return for a directory the cache lists
PCaches ==
    [s3_ok : BOOLEAN, manifest_ok : BOOLEAN, list_directories : SUBSET DatasetKeys,
     directory_ok : BOOLEAN, path_ok : BOOLEAN]

Raise == [kind |-> "raise", value |-> "Exception"]
PathResult(path) == [kind |-> "path", value |-> path]
NoneResult == [kind |-> "None", value |-> None]

\* pcache.get_directory_metadata(directory)
get_directory_metadata(cache, directory) ==
    IF directory \in cache.list_directories /\ cache.directory_ok
    THEN PathResult(directory) ELSE Raise

\* pcache.get_metadata_path(directory, file_name)
get_metadata_path(cache, directory, file_name) ==
    IF directory \in cache.list_directories /\ cache.path_ok
    THEN PathResult(directory \o "/" \o file_name) ELSE Raise

\* Truth value of a str | None
truthy(s) == s # None /\ s # ""

\* abc_cache_download_meta: the path, None, or the exception of the two calls
\* made before the try
abc_cache_download_meta(cache, data_key, mkey) ==
    IF ~cache.s3_ok \/ ~cache.manifest_ok THEN Raise
    ELSE IF data_key \notin cache.list_directories THEN NoneResult
    ELSE LET metadata_path == get_directory_metadata(cache, data_key)
         IN  IF metadata_path.kind = "raise" THEN NoneResult
             ELSE IF truthy(mkey)
                  THEN LET file_path == get_metadata_path(cache, data_key, mkey)
                       IN  IF file_path.kind = "raise" THEN NoneResult ELSE file_path
                  ELSE metadata_path

\* ABCDbMERFISH_CCFQuery.__init__: the value of self.ccf_meta_file, or the
\* exception of one of its four cache calls
ABCDbMERFISH_CCFQuery_init(cache) ==
    IF ~cache.s3_ok \/ ~cache.manifest_ok THEN Raise
    ELSE IF get_directory_metadata(cache, MERFISH_CCF_DATASET_KEY).kind = "raise" THEN Raise
    ELSE get_metadata_path(cache, MERFISH_CCF_DATASET_KEY, PARCEL_META_DATA_KEY)

\* The tables pd.read_csv finds at the metadata path
MetaTables == {<<>>, <<CellRecord(GlutClass, UntaggedGlut, SubstructureA)>>}

InitMeta ==
    /\ pcache \in PCaches
    /\ \/ /\ entry = "abc_cache_download_meta"
          /\ abc_data_key \in DatasetKeys
          /\ meta_key \in {PARCEL_META_DATA_KEY, "", None}
          /\ cell_ccf = <<>> /\ region_list = <<>>
       \/ /\ entry \in {"region_cell_type_ratios", "ABCDbMERFISH_CCFQuery"}
          /\ abc_data_key = MERFISH_CCF_DATASET_KEY
          /\ meta_key = PARCEL_META_DATA_KEY
          /\ cell_ccf \in MetaTables /\ region_list = <<RegionA>>
    /\ self_ccf_meta_file = None
    /\ pc = "call"
    /\ region_cell_ccf = <<>> /\ region_ctx_ccf = <<>> /\ region_frac_ccf = <<>>
    /\ result = [kind |-> "unset"] /\ raised = None
    /\ IdleFlags /\ IdleRatios /\ IdleQry

\* abc_cache_download_meta(download_base, abc_data_key, meta_key)
CallAbcCacheDownloadMeta ==
    /\ pc = "call" /\ entry = "abc_cache_download_meta"
    /\ \E r \in {abc_cache_download_meta(pcache, abc_data_key, meta_key)} :
          IF r.kind = "raise"
          THEN raised' = r.value /\ UNCHANGED result
          ELSE result' = r /\ UNCHANGED raised
    /\ pc' = "done"
    /\ UNCHANGED <<cell_ccf, entry, region_list, region_cell_ccf, region_ctx_ccf,
                   region_frac_ccf, varsFlags, varsRatios, varsQry, varsMeta>>

\* region_cell_type_ratios(region_name, download_base), with the cache lookup
CallRegionCellTypeRatiosCached ==
    /\ pc = "call" /\ entry = "region_cell_type_ratios"
    /\ \E ccf_meta_file \in {abc_cache_download_meta(pcache, abc_data_key, meta_key)} :
          IF ccf_meta_file.kind = "raise"
          THEN /\ raised' = ccf_meta_file.value
               /\ UNCHANGED <<region_cell_ccf, region_ctx_ccf, region_frac_ccf, result>>
          ELSE IF ccf_meta_file.kind = "None"
          THEN /\ result' = [kind |-> "None"]
               /\ UNCHANGED <<region_cell_ccf, region_ctx_ccf, region_frac_ccf, raised>>
          ELSE LET region_name == region_list[1] IN
               \E maps \in {region_ccf_cell_types(cell_ccf, <<region_name>>)} :
                   /\ region_cell_ccf' = maps.cell
                   /\ region_ctx_ccf' = maps.ctx
                   /\ region_frac_ccf' = maps.frac
                   /\ IF DictHas(maps.frac, region_name)
                      THEN /\ result' = [kind |-> "frame", value |-> DictGet(maps.frac, region_name)]
                           /\ UNCHANGED raised
                      ELSE /\ raised' = "KeyError"
                           /\ UNCHANGED result
    /\ pc' = "done"
    /\ UNCHANGED <<cell_ccf, entry, region_list, varsFlags, varsRatios, varsQry, varsMeta>>

\* ABCDbMERFISH_CCFQuery(init_params): an exception leaves no query object
Construct ==
    /\ pc = "call" /\ entry = "ABCDbMERFISH_CCFQuery"
    /\ \E r \in {ABCDbMERFISH_CCFQuery_init(pcache)} :
          IF r.kind = "raise"
          THEN raised' = r.value /\ pc' = "done" /\ UNCHANGED self_ccf_meta_file
          ELSE self_ccf_meta_file' = r.value /\ pc' = "constructed" /\ UNCHANGED raised
    /\ UNCHANGED <<cell_ccf, entry, region_list, region_cell_ccf, region_ctx_ccf,
                   region_frac_ccf, result, pcache, abc_data_key, meta_key,
                   varsFlags, varsRatios, varsQry>>

\* run(exec_params) of the constructed query object
RunConstructed ==
    /\ pc = "constructed"
    /\ \E maps \in {region_ccf_cell_types(cell_ccf, region_list)} :
           /\ region_cell_ccf' = maps.cell
           /\ region_ctx_ccf' = maps.ctx
           /\ region_frac_ccf' = maps.frac
           /\ result' = [kind |-> "list",
                         value |-> <<[i \in DOMAIN maps.frac |->
                                        <<maps.frac[i][1], to_dict_index(maps.frac[i][2])>>]>>]
    /\ pc' = "done"
    /\ UNCHANGED <<cell_ccf, entry, region_list, raised, varsFlags, varsRatios, varsQry, varsMeta>>

NextMeta ==
    CallAbcCacheDownloadMeta \/ CallRegionCellTypeRatiosCached \/ Construct \/ RunConstructed

SpecMeta == InitMeta /\ [][NextMeta]_vars

\* The metadata asked for is missing or unavailable: the cache is built and
\* its manifest loaded, but the dataset key is not among its directories or a
\* lookup fails
MetadataUnavailable ==
    /\ pcache.s3_ok /\ pcache.manifest_ok
    /\ \/ abc_data_key \notin pcache.list_directories
       \/ ~pcache.directory_ok
       \/ truthy(meta_key) /\ ~pcache.path_ok

\* C17 as stated: when the metadata is missing or unavailable, the operation
\* ends without raising; abc_cache_download_meta and region_cell_type_ratios
\* return None, and the query constructor does not abort.
C17_Original ==
    (pc = "done" /\ MetadataUnavailable) =>
        /\ raised = None
        /\ entry \in {"abc_cache_download_meta", "region_cell_type_ratios"}
               => result.kind = "None"

====
